---- MODULE Spec2Model ----
(***************************************************************************)
(* BookHive server (sabbirosa/book-hive-server): the catalog store, the    *)
(* borrow ledger and the request handlers that work on them.               *)
(*                                                                         *)
(* Every handler is an async function; the store operations it awaits are  *)
(* its only suspension points.  One action of the model is one store       *)
(* operation taking effect together with the synchronous code that runs    *)
(* on its result up to the next store operation.  Handlers of different    *)
(* requests interleave at these points.                                    *)
(*                                                                         *)
(* src/ holds three borrow flows; `build` says which one is deployed:      *)
(*   "inline"  borrowBook of book.controller.ts:354-392 (find, save the    *)
(*             book, create the record);                                   *)
(*   "hooked"  borrowBook of borrow.controller.ts with the Borrow model    *)
(*             of book.model.ts:125-194 (pre/post save hooks);             *)
(*   "plain"   borrowBook of borrow.controller.ts with the Borrow model    *)
(*             of borrow.model.ts (hooks removed).                         *)
(*                                                                         *)
(* The later routes put validate.middleware before some handlers; it is    *)
(* not in src/.  It can only turn a request down before the handler runs,  *)
(* so the handlers are modelled for every input.                           *)
(***************************************************************************)
EXTENDS Integers, Sequences, FiniteSets, Bags, TLC

\* ------------------------------------------------------------- bounds
MaxBooks == 2
MaxCopies == 2
MaxQty == 2
MaxBorrows == 2
MaxReq == 2
MaxTime == 2
MaxShelf == 6
MaxMonths == 13
MonthLen == 2
MaxIsbn == 2
MaxItems == 5
MaxPage == 3
MaxLimit == 2

BookIds == 1..MaxBooks
\* request inputs: a book id (0 is not a valid ObjectId), a quantity (one below 1, and
\* the ones from 1 on), a copy count
BookArgs == 0..MaxBooks
Quantities == {-1} \cup (1..MaxQty)
CopyArgs == -1..MaxCopies
Builds == {"inline", "hooked", "plain"}

VARIABLES
  uri,          \* process.env.MONGODB_URI is defined
  isConnected,  \* the flag of the connection middleware
  build,    \* which borrow flow is deployed
  now,      \* the clock (new Date())
  books,    \* the books collection: id -> document
  made,     \* how many book ids have been handed out (ids are never reused)
  borrows,  \* the borrows collection: a bag of documents
  req,      \* the handlers running: a bag of their positions and local variables
  created   \* history: the copies each book was created with

vars == <<uri, isConnected, build, now, books, made, borrows, req, created>>

\* ------------------------------------------------------------- documents
NoBook == [exists |-> FALSE, copies |-> 0, available |-> FALSE, isbn |-> 0]

\* a hydrated Mongoose document: its values and its modified paths
NoDoc == [doc |-> NoBook, mod |-> {}]

\* a handler: where it stands, its request (op, book, quantity, dueDate), the copies
\* of the book it read, the createdAt of the document it is saving, its local book
\* document, and what it answered.  History: solo, no other request has been in
\* flight since it started; fresh, the book had no borrow record when it was read
\* (of an update: no other book had the isbn of the request when the book was read);
\* seen, the totals the ledger has held for its book while the book had the copies
\* it read.  out is the data of a report, query the query string of a list request
Idle == [pc |-> "idle", op |-> "none", book |-> 0, qty |-> 0, due |-> 0, saw |-> 0, at |-> 0,
         d |-> NoDoc, solo |-> TRUE, fresh |-> FALSE, resp |-> "none", out |-> <<>>,
         seen |-> {}, query |-> <<>>]

\* Model.findById: the local document, with the values it was loaded with
Hydrate(b) == [doc |-> books[b], mod |-> {}, was |-> books[b]]

\* document.set: a path becomes modified when its value changes, and is no longer
\* modified when it is set back to the value it was loaded with
SetPath(d, f, v) ==
  IF d.doc[f] = v THEN d
  ELSE [d EXCEPT !.doc[f] = v,
                 !.mod = IF v = d.was[f] THEN @ \ {f} ELSE @ \cup {f}]

\* the hook with its first branch only
BookPreSaveNoCopies(d) == IF d.doc.copies <= 0 THEN SetPath(d, "available", FALSE) ELSE d

\* bookSchema.pre("save")
BookPreSave(d) ==
  IF d.doc.copies <= 0 THEN SetPath(d, "available", FALSE)
  ELSE IF ~d.doc.available THEN SetPath(d, "available", TRUE)
  ELSE d

\* the minimum of copies set one too low
CopiesValidBelow(c) == c >= -1

\* bookSchema.copies: min 0 (inputs are integers)
CopiesValid(c) == c >= 0

\* borrowSchema.quantity: min 1
QuantityValid(q) == q >= 1

\* the dueDate compared with >= instead of >
DueDateValidNotPast(due) == due >= now

\* borrowSchema.dueDate: v > new Date()
DueDateValid(due) == due > now

\* what save() needs of a local document: the modified paths and their values
Delta(d) == [doc |-> [f \in DOMAIN d.doc |-> IF f \in d.mod THEN d.doc[f] ELSE NoBook[f]],
             mod |-> d.mod]

\* document.save() of a loaded book: the modified paths are $set on the stored
\* document; the other paths keep what the store holds
Stored(b, d) == [f \in DOMAIN books[b] |-> IF f \in d.mod THEN d.doc[f] ELSE books[b][f]]

\* the index on isbn without unique: true
IsbnNeverTaken(i, except) == FALSE

\* the unique index on isbn
IsbnTaken(i, except) == \E b \in BookIds : b /= except /\ books[b].exists /\ books[b].isbn = i

\* the $sum of quantity over the records S of a bag
RECURSIVE QuantitySum(_, _)
QuantitySum(bag, S) ==
  IF S = {} THEN 0
  ELSE LET x == CHOOSE y \in S : TRUE
       IN x.quantity * bag[x] + QuantitySum(bag, S \ {x})

\* the sum of quantity over all records, whatever their book
TotalBorrowedAll(bag, b) == QuantitySum(bag, DOMAIN bag)

\* Borrow.getTotalBorrowedForBook: the sum of quantity over the records of a book,
\* 0 when it has none
TotalBorrowed(bag, b) == QuantitySum(bag, {x \in DOMAIN bag : x.book = b})

\* how many documents of the bag are in S
RECURSIVE Copies(_, _)
Copies(bag, S) ==
  IF S = {} THEN 0
  ELSE LET x == CHOOSE y \in S : TRUE
       IN bag[x] + Copies(bag, S \ {x})

\* ------------------------------------------------------------- requests
Handlers == DOMAIN req

\* res.json(..) ends the synchronous block that decided the response: no other
\* handler runs between the two
Quiet == \A h \in Handlers : h.pc /= "resp"

\* the server takes a new request and the connection middleware, the connection
\* being there, passes it to its route at once
Free == Quiet /\ isConnected /\ BagCardinality(req) < MaxReq

\* the handler h resumes at the store operation it awaits
At(h, pc) == h \in Handlers /\ Quiet /\ h.pc = pc

\* the handlers in flight stop running alone
Joined == [g \in {[h EXCEPT !.solo = FALSE] : h \in Handlers} |->
             IF g \in Handlers THEN req[g] ELSE req[[g EXCEPT !.solo = TRUE]]]

\* history: what a getTotalBorrowedForBook that has read its book notes of the store
\* as it is when another handler takes a step
Watched(r) ==
  IF /\ r.op = "getTotalBorrowedForBook" /\ r.pc = "aggregate"
     /\ books[r.book].exists /\ books[r.book].copies = r.saw
  THEN [r EXCEPT !.seen = @ \cup {TotalBorrowed(borrows, r.book)}]
  ELSE r

\* the handlers of a bag, each with what it has noted
Watch(bag) ==
  IF \A r \in DOMAIN bag : Watched(r) = r THEN bag
  ELSE [g \in {Watched(r) : r \in DOMAIN bag} |->
          Copies(bag, {r \in DOMAIN bag : Watched(r) = g})]

\* a request starts: it runs alone unless another one is in flight
Begin(h) == req' = Watch(Joined) (+) SetToBag({[h EXCEPT !.solo = (req = EmptyBag)]})

\* the handler h goes on as g
Step(h, g) == req' = Watch(req (-) SetToBag({h})) (+) SetToBag({g})

\* res.status(..).json(..): the handler is through and its local state is dropped
Answer(h, resp) == [Idle EXCEPT !.pc = "resp", !.op = h.op, !.book = h.book, !.qty = h.qty,
                                !.due = h.due, !.solo = h.solo, !.resp = resp]

\* a request turned down in the synchronous block that read the book: it is answered
\* at once and nothing has changed
TurnedDown == UNCHANGED vars

\* the requests come to a server that has connected to the database
Init ==
  /\ uri = TRUE
  /\ isConnected = TRUE
  /\ build \in Builds
  /\ now = 0
  /\ books = [b \in BookIds |-> NoBook]
  /\ made = 0
  /\ borrows = EmptyBag
  /\ req = EmptyBag
  /\ created = [b \in BookIds |-> 0]

\* the clock advances
Tick ==
  /\ Quiet
  /\ now < MaxTime
  /\ now' = now + 1
  /\ UNCHANGED <<uri, isConnected, build, books, made, borrows, req, created>>

\* the response has been sent; the handler is gone
Respond ==
  \E h \in Handlers :
    /\ h.pc = "resp"
    /\ req' = req (-) SetToBag({h})
    /\ UNCHANGED <<uri, isConnected, build, now, books, made, borrows, created>>

\* ------------------------------------------------------------- the connection
\* a request the connection middleware holds, or has passed to the router
Request == [Idle EXCEPT !.op = "request"]

\* the server starts without a connection
InitConnect ==
  /\ uri \in BOOLEAN
  /\ isConnected = FALSE
  /\ build \in Builds
  /\ now = 0
  /\ books = [b \in BookIds |-> NoBook]
  /\ made = 0
  /\ borrows = EmptyBag
  /\ req = EmptyBag
  /\ created = [b \in BookIds |-> 0]

\* a request comes while isConnected is false: connectDB() throws at once when the
\* uri is not defined, and the middleware answers 500; else it calls mongoose.connect
connectDB ==
  /\ Quiet /\ BagCardinality(req) < MaxReq
  /\ ~isConnected
  /\ IF uri THEN Begin([Request EXCEPT !.pc = "connect"])
     ELSE Begin(Answer(Request, "unconnected"))
  /\ UNCHANGED <<uri, isConnected, build, now, books, made, borrows, created>>

\* a request comes while isConnected is true: connectDB() returns and next() gives
\* the request to the router
passed ==
  /\ Free
  /\ Begin([Request EXCEPT !.pc = "route"])
  /\ UNCHANGED <<uri, isConnected, build, now, books, made, borrows, created>>

\* mongoose.connect(uri) succeeds: isConnected = true, and next()
connected ==
  \E h \in Handlers :
    /\ At(h, "connect")
    /\ isConnected' = TRUE
    /\ Step(h, [h EXCEPT !.pc = "route"])
    /\ UNCHANGED <<uri, build, now, books, made, borrows, created>>

\* the failure of mongoose.connect(uri) not caught: next() all the same
connectFailedPassed ==
  \E h \in Handlers :
    /\ At(h, "connect")
    /\ Step(h, [h EXCEPT !.pc = "route"])
    /\ UNCHANGED <<uri, isConnected, build, now, books, made, borrows, created>>

\* mongoose.connect(uri) fails: connectDB() throws again, the middleware answers 500
connectFailed ==
  \E h \in Handlers :
    /\ At(h, "connect")
    /\ Step(h, Answer(h, "unconnected"))
    /\ UNCHANGED <<uri, isConnected, build, now, books, made, borrows, created>>

\* the route of a request that the middleware has passed answers it (what the
\* routes do is in the actions of the handlers)
routed ==
  \E h \in Handlers :
    /\ At(h, "route")
    /\ Step(h, Answer(h, "routed"))
    /\ UNCHANGED <<uri, isConnected, build, now, books, made, borrows, created>>

\* ------------------------------------------------------------- createBook
\* the isbn a create request carries: one no other book has been given
FreshIsbns == {made + 1}

\* what Book.create(req.body) comes to: validation, the unique index, or the insert
CreateOutcome(c, i) ==
  IF ~CopiesValid(c) THEN "validation"
  ELSE IF IsbnTaken(i, 0) THEN "duplicate"
  ELSE "created"

\* Book.create(req.body) with an isbn of isbns: validation, the pre-save hook, one
\* insert.  With hist the history variable `created` records the copies the book
\* starts with
CreateBookWith(hist, isbns) ==
  /\ Free
  /\ \E c \in CopyArgs, a \in BOOLEAN, i \in isbns :
       LET d == BookPreSave([doc |-> [exists |-> TRUE, copies |-> c, available |-> a, isbn |-> i],
                             mod |-> {"copies", "available", "isbn"}, was |-> NoBook])
           slot == [Idle EXCEPT !.op = "createBook", !.book = made + 1]
       IN IF CreateOutcome(c, i) /= "created" THEN TurnedDown
          ELSE /\ made < MaxBooks
               /\ made' = made + 1
               /\ books' = [books EXCEPT ![made + 1] = d.doc]
               /\ created' = IF hist THEN [created EXCEPT ![made + 1] = d.doc.copies] ELSE created
               /\ Begin(Answer(slot, "created"))
               /\ UNCHANGED <<uri, isConnected, build, now, borrows>>

\* createBook with an isbn no book has been given
CreateBook(hist) == CreateBookWith(hist, FreshIsbns)

createBook == CreateBook(FALSE)

\* the isbn a request may carry
IsbnArgs == 1..MaxIsbn

\* createBook with any isbn
createBookIsbn == CreateBookWith(FALSE, IsbnArgs)

\* createBook, with the history kept
createBookLedger == CreateBook(TRUE)

\* ------------------------------------------------------------- borrowBook
\* the dueDate a borrow request carries: not later than now, or later
DueArgs == {now, now + 1}

\* the arguments of a borrow request: book, quantity, dueDate
BorrowSlot(b, q, due) == [Idle EXCEPT !.op = "borrow", !.book = b, !.qty = q, !.due = due]

\* a document stored with twice the quantity asked for
BorrowDocDoubled(b, q, due, at) ==
  [book |-> b, quantity |-> 2 * q, dueDate |-> due, createdAt |-> at]

\* a new Borrow document as the store keeps it (timestamps: true)
BorrowDoc(b, q, due, at) == [book |-> b, quantity |-> q, dueDate |-> due, createdAt |-> at]

\* the test without the availability flag
InsufficientCopiesOnly(b, q) == books[b].copies < q

\* the test both controllers (and the pre-save hook) make on the book they read
Insufficient(b, q) == ~books[b].available \/ books[b].copies < q

\* "inline" build, book.controller.ts: the local document after the deduction
Deducted(b, q) ==
  LET d1 == SetPath(Hydrate(b), "copies", books[b].copies - q)
  IN IF d1.doc.copies = 0 THEN SetPath(d1, "available", FALSE) ELSE d1

\* "inline" build: what the handler comes to before its save() reaches the store
\* (a bad id is a CastError of findById; save() validates the local document)
BorrowInlineEntry(b, q) ==
  IF b \notin BookIds THEN "badid"
  ELSE IF ~books[b].exists THEN "notfound"
  ELSE IF Insufficient(b, q) THEN "insufficient"
  ELSE IF ~CopiesValid(Deducted(b, q).doc.copies) THEN "validation"
  ELSE "proceed"

\* "inline" build: Book.findById, the test, the deduction on the local document, for
\* a request whose quantity is in qs and whose dueDate is in dues
borrowInlineFindWith(qs, dues) ==
  /\ build = "inline"
  /\ Free
  /\ \E b \in BookArgs, q \in qs, due \in dues :
       IF BorrowInlineEntry(b, q) /= "proceed" THEN TurnedDown
       ELSE /\ Deducted(b, q).doc.copies <= MaxCopies
            /\ Begin([BorrowSlot(b, q, due) EXCEPT !.pc = "save", !.saw = books[b].copies,
                                             !.fresh = TotalBorrowed(borrows, b) = 0,
                                                      !.d = Delta(BookPreSave(Deducted(b, q)))])
            /\ UNCHANGED <<uri, isConnected, build, now, books, made, borrows, created>>

borrowInlineFind == borrowInlineFindWith(Quantities, DueArgs)

\* the same for the requests that Borrow.create accepts: a quantity from 1 on and a
\* dueDate in the future
borrowInlineFindAccepted == borrowInlineFindWith(1..MaxQty, {now + 1})

\* "inline" build: await book.save()
borrowInlineSave ==
  \E h \in Handlers :
    /\ At(h, "save")
    /\ LET b == h.book
       IN IF ~books[b].exists
          THEN Step(h, Answer(h, "error")) /\ UNCHANGED books
          ELSE /\ books' = [books EXCEPT ![b] = Stored(b, h.d)]
               /\ Step(h, [h EXCEPT !.pc = "create", !.d = NoDoc])
    /\ UNCHANGED <<uri, isConnected, build, now, made, borrows, created>>

\* Borrow.create without hooks: the schema validators, the timestamp, the insert
BorrowCreate(h) ==
  IF ~QuantityValid(h.qty) \/ ~DueDateValid(h.due)
  THEN Step(h, Answer(h, "validation")) /\ UNCHANGED borrows
  ELSE /\ BagCardinality(borrows) < MaxBorrows
       /\ borrows' = borrows (+) SetToBag({BorrowDoc(h.book, h.qty, h.due, now)})
       /\ Step(h, Answer(h, "created"))

\* "inline" build: await Borrow.create(..) and the 201 (an error goes to next(err))
borrowInlineCreate ==
  \E h \in Handlers :
    /\ build = "inline"
    /\ At(h, "create")
    /\ BorrowCreate(h)
    /\ UNCHANGED <<uri, isConnected, build, now, books, made, created>>

\* the input checks and the test, without the check that the book was found
BorrowEntryUnfound(b, q, due) ==
  IF b \notin BookIds THEN "badid"
  ELSE IF q < 1 THEN "validation"
  ELSE IF due <= now THEN "validation"
  ELSE IF ~books[b].available \/ books[b].copies < q THEN "insufficient"
  ELSE "proceed"

\* borrow.controller.ts: the three input checks, Book.findById, the test
BorrowEntry(b, q, due) ==
  IF b \notin BookIds THEN "badid"
  ELSE IF q < 1 THEN "validation"
  ELSE IF due <= now THEN "validation"
  ELSE IF ~books[b].exists THEN "notfound"
  ELSE IF Insufficient(b, q) THEN "insufficient"
  ELSE "proceed"

borrowBook ==
  /\ build \in {"hooked", "plain"}
  /\ Free
  /\ \E b \in BookArgs, q \in Quantities, due \in DueArgs :
       IF BorrowEntry(b, q, due) /= "proceed" THEN TurnedDown
       ELSE /\ Begin([BorrowSlot(b, q, due) EXCEPT
                           !.pc = IF build = "hooked" THEN "presave" ELSE "create",
                           !.saw = books[b].copies,
                           !.fresh = TotalBorrowed(borrows, b) = 0])
            /\ UNCHANGED <<uri, isConnected, build, now, books, made, borrows, created>>

\* "plain" build: await Borrow.create(..), the populate and the 201
borrowCreate ==
  \E h \in Handlers :
    /\ build = "plain"
    /\ At(h, "create")
    /\ BorrowCreate(h)
    /\ UNCHANGED <<uri, isConnected, build, now, books, made, created>>

\* "hooked" build, Borrow.create up to the insert: the validators, the timestamp,
\* then borrowSchema.pre('save') reads the book again
borrowPreSave ==
  \E h \in Handlers :
    /\ At(h, "presave")
    /\ LET b == h.book
       IN IF ~QuantityValid(h.qty) \/ ~DueDateValid(h.due)
          THEN Step(h, Answer(h, "validation"))
          ELSE IF ~books[b].exists THEN Step(h, Answer(h, "error"))
          ELSE IF Insufficient(b, h.qty) THEN Step(h, Answer(h, "insufficient"))
          ELSE Step(h, [h EXCEPT !.pc = "insert", !.at = now])
    /\ UNCHANGED <<uri, isConnected, build, now, books, made, borrows, created>>

\* "hooked" build: the insert, borrowSchema.post('save'), the populate and the 201.
\* The post-save hook deducts the copies only if doc.isNew; Mongoose clears isNew
\* when it sends the insert, before the post hooks run, so the hook changes nothing
borrowInsert ==
  \E h \in Handlers :
    /\ At(h, "insert")
    /\ BagCardinality(borrows) < MaxBorrows
    /\ borrows' = borrows (+) SetToBag({BorrowDoc(h.book, h.qty, h.due, h.at)})
    /\ Step(h, Answer(h, "created"))
    /\ UNCHANGED <<uri, isConnected, build, now, books, made, created>>

\* ------------------------------------------------------------- deleteBook
\* the id check and Book.findById of the book handlers
BookEntry(b) ==
  IF b \notin BookIds THEN "badid"
  ELSE IF ~books[b].exists THEN "notfound"
  ELSE "proceed"

\* Book.findById
deleteBook ==
  /\ Free
  /\ \E b \in BookArgs :
       IF BookEntry(b) /= "proceed" THEN TurnedDown
       ELSE /\ Begin([Idle EXCEPT !.op = "deleteBook", !.book = b, !.pc = "deleteMany"])
            /\ UNCHANGED <<uri, isConnected, build, now, books, made, borrows, created>>

\* deleteMany without the filter
deleteBorrowsAll ==
  \E h \in Handlers :
    /\ At(h, "deleteMany")
    /\ borrows' = EmptyBag
    /\ Step(h, [h EXCEPT !.pc = "deleteOne"])
    /\ UNCHANGED <<uri, isConnected, build, now, books, made, created>>

\* Borrow.deleteMany({ book: id })
deleteBorrows ==
  \E h \in Handlers :
    /\ At(h, "deleteMany")
    /\ borrows' = [x \in {y \in DOMAIN borrows : y.book /= h.book} |-> borrows[x]]
    /\ Step(h, [h EXCEPT !.pc = "deleteOne"])
    /\ UNCHANGED <<uri, isConnected, build, now, books, made, created>>

\* Book.findByIdAndDelete(id) and the 200
deleteOne ==
  \E h \in Handlers :
    /\ At(h, "deleteOne")
    /\ books' = [books EXCEPT ![h.book] = NoBook]
    /\ Step(h, Answer(h, "ok"))
    /\ UNCHANGED <<uri, isConnected, build, now, made, borrows, created>>

\* ------------------------------------------------------------- updateBook
\* the fields an update request may carry (a field the body lacks has no value)
Fields == {"copies", "available"}

\* the bodies of an update request
Bodies ==
  UNION {{[has |-> has, copies |-> c, available |-> a] :
            c \in IF "copies" \in has THEN CopyArgs ELSE {0},
            a \in IF "available" \in has THEN BOOLEAN ELSE {FALSE}} : has \in SUBSET Fields}

\* Object.assign(book, req.body): the fields the body carries are set
Assign(d, has, c, a) ==
  LET d1 == IF "copies" \in has THEN SetPath(d, "copies", c) ELSE d
  IN IF "available" \in has THEN SetPath(d1, "available", a) ELSE d1

\* the controller's own rule on available, after the assignment
UpdateRule(d, has, a) ==
  IF d.doc.copies <= 0 THEN SetPath(d, "available", FALSE)
  ELSE IF ~("available" \in has /\ a = FALSE) THEN SetPath(d, "available", TRUE)
  ELSE d

\* the local document an update request holds when it calls save()
Updated(b, has, c, a) == UpdateRule(Assign(Hydrate(b), has, c, a), has, a)

\* what the handler comes to before its save() reaches the store
UpdateEntry(b, has, c, a) ==
  IF BookEntry(b) /= "proceed" THEN BookEntry(b)
  ELSE IF ~CopiesValid(Updated(b, has, c, a).doc.copies) THEN "validation"
  ELSE "proceed"

\* Book.findById, the assignment, the rule; save() validates and runs the pre-save hook
updateBook ==
  /\ Free
  /\ \E b \in BookArgs, body \in Bodies :
       LET has == body.has
           c == body.copies
           a == body.available
       IN
       IF UpdateEntry(b, has, c, a) /= "proceed" THEN TurnedDown
       ELSE /\ Begin([Idle EXCEPT !.op = "updateBook", !.book = b, !.pc = "updateSave",
                                     !.d = Delta(BookPreSave(Updated(b, has, c, a)))])
            /\ UNCHANGED <<uri, isConnected, build, now, books, made, borrows, created>>

\* book.save() reaches the store: not found, duplicate key, or the $set
SaveBook(h) ==
  LET b == h.book
      d == h.d
  IN IF ~books[b].exists
     THEN Step(h, Answer(h, "error")) /\ UNCHANGED books
     ELSE IF "isbn" \in d.mod /\ IsbnTaken(d.doc.isbn, b)
     THEN Step(h, Answer(h, "duplicate")) /\ UNCHANGED books
     ELSE /\ books' = [books EXCEPT ![b] = Stored(b, d)]
          /\ Step(h, Answer(h, "ok"))

updateSave ==
  \E h \in Handlers :
    /\ At(h, "updateSave")
    /\ SaveBook(h)
    /\ UNCHANGED <<uri, isConnected, build, now, made, borrows, created>>

\* the bodies of an update request that may carry an isbn as well
IsbnBodies ==
  UNION {{[has |-> body.has \cup h, copies |-> body.copies, available |-> body.available,
           isbn |-> i] : i \in IF h = {} THEN {0} ELSE IsbnArgs} :
            body \in Bodies, h \in {{}, {"isbn"}}}

\* Object.assign(book, req.body) for the isbn
AssignIsbn(d, has, i) == IF "isbn" \in has THEN SetPath(d, "isbn", i) ELSE d

\* the local document an update request with the body holds when it calls save()
UpdatedIsbn(b, body) ==
  UpdateRule(AssignIsbn(Assign(Hydrate(b), body.has, body.copies, body.available),
                        body.has, body.isbn),
             body.has, body.available)

\* what the handler comes to before its save() reaches the store
UpdateIsbnEntry(b, body) ==
  IF BookEntry(b) /= "proceed" THEN BookEntry(b)
  ELSE IF ~CopiesValid(UpdatedIsbn(b, body).doc.copies) THEN "validation"
  ELSE "proceed"

\* updateBook with a body that may carry an isbn: Book.findById, the assignment, the
\* rule; save() validates and runs the pre-save hook
updateBookIsbn ==
  /\ Free
  /\ \E b \in BookArgs, body \in IsbnBodies :
       IF UpdateIsbnEntry(b, body) /= "proceed" THEN TurnedDown
       ELSE /\ Begin([Idle EXCEPT !.op = "updateBook", !.book = b, !.pc = "updateSave",
                                     !.fresh = ~IsbnTaken(body.isbn, b),
                                     !.d = Delta(BookPreSave(UpdatedIsbn(b, body)))])
            /\ UNCHANGED <<uri, isConnected, build, now, books, made, borrows, created>>

\* ------------------------------------------------------------- updateBookAvailability
\* Book.findById, then book.updateAvailability() up to its save()
updateBookAvailability ==
  /\ Free
  /\ \E b \in BookArgs :
       IF BookEntry(b) /= "proceed" THEN TurnedDown
       ELSE /\ Begin([Idle EXCEPT !.op = "updateBookAvailability", !.book = b,
                                     !.pc = "availSave",
                                     !.d = Delta(BookPreSave(SetPath(Hydrate(b), "available",
                                                                     books[b].copies > 0)))])
            /\ UNCHANGED <<uri, isConnected, build, now, books, made, borrows, created>>

\* updateAvailability(): await this.save(), and the 200
availSave ==
  \E h \in Handlers :
    /\ At(h, "availSave")
    /\ SaveBook(h)
    /\ UNCHANGED <<uri, isConnected, build, now, made, borrows, created>>

\* ------------------------------------------------------------- the reports
\* a report answers 200 with its data (at: when its query was made)
ReportAnswer(h, out) == [Answer(h, "ok") EXCEPT !.out = out, !.at = h.at]

\* the larger of two numbers
Max(a, b) == IF a >= b THEN a ELSE b

\* the $max of createdAt over the records S
RECURSIVE LatestCreated(_)
LatestCreated(S) ==
  IF S = {} THEN 0
  ELSE LET x == CHOOSE y \in S : TRUE
       IN Max(x.createdAt, LatestCreated(S \ {x}))

\* $group by book, then $lookup in books and $unwind: one document per book that
\* has records and is in the catalog, with the sums of the group and what the
\* $project keeps of the book
Grouped(bag) ==
  {[book |-> b, isbn |-> books[b].isbn,
    totalQuantityBorrowed |-> TotalBorrowed(bag, b),
    borrowCount |-> Copies(bag, {x \in DOMAIN bag : x.book = b}),
    lastBorrowDate |-> LatestCreated({x \in DOMAIN bag : x.book = b})] :
     b \in {c \in {x.book : x \in DOMAIN bag} : c \in DOMAIN books /\ books[c].exists}}

\* the field the two aggregates sort on
TotalOf(x) == IF "totalBorrowed" \in DOMAIN x THEN x.totalBorrowed ELSE x.totalQuantityBorrowed

\* the documents in ascending order of the total
RECURSIVE SortedAscending(_)
SortedAscending(S) ==
  IF S = {} THEN {<<>>}
  ELSE UNION {{<<x>> \o t : t \in SortedAscending(S \ {x})} :
                x \in {y \in S : \A z \in S : TotalOf(y) <= TotalOf(z)}}

\* $sort: { total: -1 }: the orders the stage may give the documents in (it does
\* not say in which order documents with equal totals come)
RECURSIVE SortedDescending(_)
SortedDescending(S) ==
  IF S = {} THEN {<<>>}
  ELSE UNION {{<<x>> \o t : t \in SortedDescending(S \ {x})} :
                x \in {y \in S : \A z \in S : TotalOf(y) >= TotalOf(z)}}

\* Borrow.getBorrowSummary(): one aggregate, and the 200
getBorrowSummary ==
  /\ Free
  /\ \E out \in SortedDescending(Grouped(borrows)) :
       Begin(ReportAnswer([Idle EXCEPT !.op = "getBorrowSummary", !.at = now], out))
  /\ UNCHANGED <<uri, isConnected, build, now, books, made, borrows, created>>

\* the filter with $lte
OverdueAtOrBefore(bag, t) == [x \in {y \in DOMAIN bag : y.dueDate <= t} |-> bag[x]]

\* the filter { dueDate: { $lt: new Date() } }
OverdueAt(bag, t) == [x \in {y \in DOMAIN bag : y.dueDate < t} |-> bag[x]]

\* populate('book', ..): the reference is replaced by the book it finds, or by null
NoRef == [id |-> 0, isbn |-> 0]

Populated(x) ==
  [x EXCEPT !.book = IF books[x.book].exists THEN [id |-> x.book, isbn |-> books[x.book].isbn]
                     ELSE NoRef]

\* the documents of a bag, each populated
PopulatedAll(bag) ==
  [y \in {Populated(x) : x \in DOMAIN bag} |->
     Copies(bag, {x \in DOMAIN bag : Populated(x) = y})]

\* Borrow.getOverdueBooks(): the find
getOverdueBooks ==
  /\ Free
  /\ Begin([Idle EXCEPT !.op = "getOverdueBooks", !.pc = "populate", !.at = now,
                        !.out = OverdueAt(borrows, now)])
  /\ UNCHANGED <<uri, isConnected, build, now, books, made, borrows, created>>

\* Borrow.getOverdueBooks(): the populate of what was found, and the 200 with count
overduePopulate ==
  \E h \in Handlers :
    /\ At(h, "populate")
    /\ Step(h, ReportAnswer(h, [data |-> PopulatedAll(h.out),
                                count |-> BagCardinality(h.out)]))
    /\ UNCHANGED <<uri, isConnected, build, now, books, made, borrows, created>>

\* getTotalBorrowedForBook: the id check and Book.findById
getTotalBorrowedForBook ==
  /\ Free
  /\ \E b \in BookArgs :
       IF BookEntry(b) /= "proceed" THEN TurnedDown
       ELSE /\ Begin([Idle EXCEPT !.op = "getTotalBorrowedForBook", !.pc = "aggregate",
                                  !.book = b, !.saw = books[b].copies,
                                  !.seen = {TotalBorrowed(borrows, b)}])
            /\ UNCHANGED <<uri, isConnected, build, now, books, made, borrows, created>>

\* getTotalBorrowedForBook: Borrow.getTotalBorrowedForBook(bookId), and the 200 with
\* the copies of the book read before
totalAggregate ==
  \E h \in Handlers :
    /\ At(h, "aggregate")
    /\ Step(h, [ReportAnswer(h, [totalBorrowed |-> TotalBorrowed(borrows, h.book),
                                 remainingCopies |-> h.saw])
                  EXCEPT !.seen = Watched(h).seen])
    /\ UNCHANGED <<uri, isConnected, build, now, books, made, borrows, created>>

\* the book a getAllBorrows request filters on; 0: the request has no book filter
BookFilters == 0..MaxBooks

\* the default page size
PageLimit == 10

\* Borrow.find(filter)
Found(bag, f) == [x \in {y \in DOMAIN bag : f = 0 \/ y.book = f} |-> bag[x]]

\* getAllBorrows, page 1 of the default size (it holds every record of the ledger):
\* the find with its populate
getAllBorrows ==
  /\ Free
  /\ BagCardinality(borrows) <= PageLimit
  /\ \E f \in BookFilters :
       Begin([Idle EXCEPT !.op = "getAllBorrows", !.pc = "count", !.book = f,
                          !.out = Found(borrows, f)])
  /\ UNCHANGED <<uri, isConnected, build, now, books, made, borrows, created>>

\* the count that also removes what it counts
allBorrowsCountRemoving ==
  \E h \in Handlers :
    /\ At(h, "count")
    /\ Step(h, ReportAnswer(h, [data |-> h.out,
                                totalBorrows |-> BagCardinality(Found(borrows, h.book))]))
    /\ borrows' = [x \in DOMAIN borrows \ DOMAIN Found(borrows, h.book) |-> borrows[x]]
    /\ UNCHANGED <<uri, isConnected, build, now, books, made, created>>

\* getAllBorrows: Borrow.countDocuments(filter), and the 200 with the page and the total
allBorrowsCount ==
  \E h \in Handlers :
    /\ At(h, "count")
    /\ Step(h, ReportAnswer(h, [data |-> h.out,
                                totalBorrows |-> BagCardinality(Found(borrows, h.book))]))
    /\ UNCHANGED <<uri, isConnected, build, now, books, made, borrows, created>>

\* $count: no document when there is nothing to count
CountStage(n) == IF n = 0 THEN <<>> ELSE <<[count |-> n]>>

\* $group with _id: null and a $sum: no document when there is nothing to group
SumStage(bag) == IF DOMAIN bag = {} THEN <<>> ELSE <<[total |-> QuantitySum(bag, DOMAIN bag)]>>

\* the default taken as 1
FirstOrOne(facet, field) == IF facet = <<>> THEN 1 ELSE facet[1][field]

\* facet[0]?.field || 0
FirstOrZero(facet, field) == IF facet = <<>> THEN 0 ELSE facet[1][field]

\* $limit: 5
TopLimit == 5

\* $limit: the first n documents, one more than asked
LimitedOver(s, n) == SubSeq(s, 1, IF Len(s) < n + 1 THEN Len(s) ELSE n + 1)

\* $limit: the first n documents
Limited(s, n) == SubSeq(s, 1, IF Len(s) < n THEN Len(s) ELSE n)

\* parseInt(req.query.page) || 1 (0: the query has no page, or page=0)
PageOf(raw) == IF raw = 0 THEN 1 ELSE raw

\* the default limit of the list requests
DefaultLimit == 10

\* parseInt(req.query.limit) || 10 (0: the query has no limit, or limit=0)
LimitOf(raw) == IF raw = 0 THEN DefaultLimit ELSE raw

\* the query strings of a list request: page, limit, a filter, sortBy ("": none) and
\* sortOrder (whatever is not "desc" is ascending).  A negative page or limit makes
\* the store reject the query
Queries(filters, keys) ==
  UNION {[page : 0..MaxPage, limit : 0..MaxLimit, filter : filters, sortBy : {k},
          sortOrder : IF k = "" THEN {"asc"} ELSE {"asc", "desc"}] : k \in keys}

\* the value the documents are sorted on: sortBy, by default createdAt (of a book:
\* its id, ids being handed out in the order of creation)
SortKey(x, q) ==
  IF q.sortBy /= "" THEN x[q.sortBy]
  ELSE IF "createdAt" \in DOMAIN x THEN x.createdAt ELSE x.id

\* sort = { createdAt: -1 }, or { [sortBy]: sortOrder === "desc" ? -1 : 1 }: x has
\* to come before y
Precedes(x, y, q) ==
  IF q.sortBy = "" \/ q.sortOrder = "desc" THEN SortKey(x, q) > SortKey(y, q)
  ELSE SortKey(x, q) < SortKey(y, q)

\* .sort(sort): the orders the store may give the documents of a bag in (documents
\* with the same key come in any order)
RECURSIVE Listings(_, _)
Listings(bag, q) ==
  IF DOMAIN bag = {} THEN {<<>>}
  ELSE UNION {{<<x>> \o t : t \in Listings(bag (-) SetToBag({x}), q)} :
                x \in {y \in DOMAIN bag : \A z \in DOMAIN bag : ~Precedes(z, y, q)}}

\* .skip(n) with one document too many skipped
SkippedOneMore(s, n) == IF n + 1 >= Len(s) THEN <<>> ELSE SubSeq(s, n + 2, Len(s))

\* .skip(n)
Skipped(s, n) == IF n >= Len(s) THEN <<>> ELSE SubSeq(s, n + 1, Len(s))

\* .skip((page - 1) * limit).limit(limit)
PageOfList(s, q) ==
  Limited(Skipped(s, (PageOf(q.page) - 1) * LimitOf(q.limit)), LimitOf(q.limit))

\* Math.ceil(total / limit)
Ceil(a, b) == (a + b - 1) \div b

\* the pagination object of a list response
Pagination(q, total) ==
  [currentPage |-> PageOf(q.page),
   totalPages |-> Ceil(total, LimitOf(q.limit)),
   total |-> total,
   hasNext |-> PageOf(q.page) < Ceil(total, LimitOf(q.limit)),
   hasPrev |-> PageOf(q.page) > 1]

\* getAllBorrows with a query string: the filter, the sort, and the find with its
\* skip and limit.  The store does not change while lists are paged, so the requests
\* are taken one at a time
getAllBorrowsPage ==
  /\ Free /\ req = EmptyBag
  /\ \E q \in Queries(BookFilters, {"", "quantity"}) :
       \E s \in Listings(Found(borrows, q.filter), q) :
         Begin([Idle EXCEPT !.op = "getAllBorrows", !.pc = "countPage", !.book = q.filter,
                            !.query = q, !.out = PageOfList(s, q)])
  /\ UNCHANGED <<uri, isConnected, build, now, books, made, borrows, created>>

\* getAllBorrows: Borrow.countDocuments(filter), and the 200 with the page and the
\* pagination
allBorrowsPageCount ==
  \E h \in Handlers :
    /\ At(h, "countPage")
    /\ h.op = "getAllBorrows"
    /\ Step(h, ReportAnswer(h, [data |-> h.out,
                                pagination |-> Pagination(h.query,
                                                 BagCardinality(Found(borrows, h.book)))]))
    /\ UNCHANGED <<uri, isConnected, build, now, books, made, borrows, created>>

\* the available a getAllBooks request filters on ("": the query has none; what is
\* not "true" asks for the books that are not available)
AvailableFilters == {"", "true", "false"}

\* Book.find(filter): the books of the catalog the filter lets through
FoundBooks(f) ==
  SetToBag({[id |-> b, copies |-> books[b].copies, available |-> books[b].available,
             isbn |-> books[b].isbn] :
              b \in {c \in DOMAIN books :
                       books[c].exists /\ (f = "" \/ books[c].available = (f = "true"))}})

\* getAllBooks with a query string (without search): the filter, the sort, and the
\* find with its skip and limit
getAllBooks ==
  /\ Free /\ req = EmptyBag
  /\ \E q \in Queries(AvailableFilters, {"", "copies"}) :
       \E s \in Listings(FoundBooks(q.filter), q) :
         Begin([Idle EXCEPT !.op = "getAllBooks", !.pc = "countPage",
                            !.query = q, !.out = PageOfList(s, q)])
  /\ UNCHANGED <<uri, isConnected, build, now, books, made, borrows, created>>

\* getAllBooks: Book.countDocuments(filter), and the 200 with the page and the
\* pagination
allBooksCount ==
  \E h \in Handlers :
    /\ At(h, "countPage")
    /\ h.op = "getAllBooks"
    /\ Step(h, ReportAnswer(h, [data |-> h.out,
                                pagination |-> Pagination(h.query,
                                                 BagCardinality(FoundBooks(h.query.filter)))]))
    /\ UNCHANGED <<uri, isConnected, build, now, books, made, borrows, created>>

\* the documents of the mostBorrowedBooks facet, as its $project leaves them
MostBorrowed(bag) ==
  {[book |-> g.book, totalBorrowed |-> g.totalQuantityBorrowed,
    borrowCount |-> g.borrowCount] : g \in Grouped(bag)}

\* the months of a year
MonthsInYear == 12

\* { $year: "$createdAt" }: the clock counts MonthLen units to the month, from the
\* first month of year 0
YearOf(t) == (t \div MonthLen) \div MonthsInYear

\* { $month: "$createdAt" }: 1 to 12
MonthOf(t) == ((t \div MonthLen) % MonthsInYear) + 1

\* the borrowsByMonth $group: one document per (year, month) of createdAt, with the
\* number of the records of the month and the sum of their quantities
ByMonth(bag) ==
  {[year |-> k[1], month |-> k[2],
    count |-> Copies(bag, {x \in DOMAIN bag : YearOf(x.createdAt) = k[1]
                                               /\ MonthOf(x.createdAt) = k[2]}),
    quantity |-> QuantitySum(bag, {x \in DOMAIN bag : YearOf(x.createdAt) = k[1]
                                                       /\ MonthOf(x.createdAt) = k[2]})] :
     k \in {<<YearOf(x.createdAt), MonthOf(x.createdAt)>> : x \in DOMAIN bag}}

\* the order with the month compared before the year
LaterMonthFirst(x, y) == x.month > y.month \/ (x.month = y.month /\ x.year > y.year)

\* { "_id.year": -1, "_id.month": -1 }: x comes before y
Later(x, y) == x.year > y.year \/ (x.year = y.year /\ x.month > y.month)

\* the $sort of the month documents (no two have the same year and month)
RECURSIVE MonthsDescending(_)
MonthsDescending(S) ==
  IF S = {} THEN <<>>
  ELSE LET x == CHOOSE y \in S : \A z \in S \ {y} : Later(y, z)
       IN <<x>> \o MonthsDescending(S \ {x})

\* $limit: 12
MonthLimit == 12

\* getBorrowStatistics: one aggregate with its facets, the defaults, and the 200
getBorrowStatistics ==
  /\ Free
  /\ \E top \in SortedDescending(MostBorrowed(borrows)) :
       Begin(ReportAnswer([Idle EXCEPT !.op = "getBorrowStatistics", !.at = now],
               [totalBorrows |-> FirstOrZero(CountStage(BagCardinality(borrows)), "count"),
                totalQuantityBorrowed |-> FirstOrZero(SumStage(borrows), "total"),
                overdueCount |->
                  FirstOrZero(CountStage(BagCardinality(OverdueAt(borrows, now))), "count"),
                borrowsByMonth |-> Limited(MonthsDescending(ByMonth(borrows)), MonthLimit),
                mostBorrowedBooks |-> Limited(top, TopLimit)]))
  /\ UNCHANGED <<uri, isConnected, build, now, books, made, borrows, created>>

\* ------------------------------------------------------------- the server
\* the borrow flow of the deployed build
Borrowing ==
  \/ borrowInlineFind
  \/ borrowInlineSave
  \/ borrowInlineCreate
  \/ borrowBook
  \/ borrowCreate
  \/ borrowPreSave
  \/ borrowInsert

\* the catalog is edited while books are borrowed; the clock stands still while
\* the requests run
Next ==
  \/ createBook
  \/ Borrowing
  \/ updateBook
  \/ updateSave
  \/ updateBookAvailability
  \/ availSave
  \/ Respond

Spec == Init /\ [][Next]_vars

\* books whose copies only borrows change: they are created and borrowed, never
\* edited or deleted, and the copies each was created with are remembered
NextLedger ==
  \/ createBookLedger
  \/ Borrowing
  \/ Respond

SpecLedger == Init /\ [][NextLedger]_vars

\* the same books, borrowed by requests that no store operation turns down: no book
\* is deleted, the clock stands still, and book.controller.ts gets only quantities
\* and dueDates that Borrow.create accepts (borrow.controller.ts checks them itself
\* before it reads the book)
NextBalance ==
  \/ createBookLedger
  \/ borrowInlineFindAccepted
  \/ borrowInlineSave
  \/ borrowInlineCreate
  \/ borrowBook
  \/ borrowCreate
  \/ borrowPreSave
  \/ borrowInsert
  \/ Respond

SpecBalance == Init /\ [][NextBalance]_vars

\* books are deleted while books are borrowed
NextDelete ==
  \/ createBook
  \/ Borrowing
  \/ deleteBook
  \/ deleteBorrows
  \/ deleteOne
  \/ Respond

SpecDelete == Init /\ [][NextDelete]_vars

\* borrowing with the clock running
NextClock ==
  \/ Tick
  \/ createBook
  \/ Borrowing
  \/ Respond

SpecClock == Init /\ [][NextClock]_vars

\* the five reports of the ledger
Reporting ==
  \/ getAllBorrows
  \/ allBorrowsCount
  \/ getBorrowSummary
  \/ getOverdueBooks
  \/ overduePopulate
  \/ getTotalBorrowedForBook
  \/ totalAggregate
  \/ getBorrowStatistics

\* the ledger is reported on while books are borrowed and deleted
NextRecords ==
  \/ createBook
  \/ Borrowing
  \/ deleteBook
  \/ deleteBorrows
  \/ deleteOne
  \/ Reporting
  \/ Respond

SpecRecords == Init /\ [][NextRecords]_vars

\* the reports that one store operation answers, and the overdue report, while books
\* are borrowed and the clock runs
NextReport ==
  \/ Tick
  \/ createBook
  \/ Borrowing
  \/ getBorrowSummary
  \/ getOverdueBooks
  \/ overduePopulate
  \/ getBorrowStatistics
  \/ Respond

SpecReport == Init /\ [][NextReport]_vars

\* a catalog of MaxShelf books, each borrowed once or not at all, and the statistics
\* of its ledger
InitShelf ==
  /\ uri = TRUE
  /\ isConnected = TRUE
  /\ build = "plain"
  /\ now = 0
  /\ made = MaxShelf
  /\ books = [b \in 1..MaxShelf |->
                [exists |-> TRUE, copies |-> MaxCopies, available |-> TRUE, isbn |-> b]]
  /\ \E q \in [1..MaxShelf -> 0..MaxQty] :
       borrows = SetToBag({BorrowDoc(b, q[b], 1, 0) : b \in {c \in 1..MaxShelf : q[c] > 0}})
  /\ req = EmptyBag
  /\ created = [b \in BookIds |-> 0]

NextShelf ==
  \/ getBorrowStatistics
  \/ Respond

SpecShelf == InitShelf /\ [][NextShelf]_vars

\* the server from its start: the connection middleware, and books are created
NextConnect ==
  \/ connectDB
  \/ passed
  \/ connected
  \/ connectFailed
  \/ routed
  \/ createBook
  \/ Respond

SpecConnect == InitConnect /\ [][NextConnect]_vars

\* the catalog is edited and no book is borrowed
NextCatalog ==
  \/ createBook
  \/ updateBook
  \/ updateSave
  \/ updateBookAvailability
  \/ availSave
  \/ Respond

SpecCatalog == Init /\ [][NextCatalog]_vars

\* the book b of the catalog of InitPages, and the record i of its ledger
PagedBook(b) ==
  [exists |-> TRUE, copies |-> b % (MaxCopies + 1), available |-> b % (MaxCopies + 1) > 0,
   isbn |-> b]

PagedBorrow(i) == BorrowDoc(1 + (i % 2), 1 + (i % MaxQty), MaxTime + 1, i \div 2)

\* a catalog of n books and a ledger of m records of its first two books
InitPages ==
  /\ uri = TRUE
  /\ isConnected = TRUE
  /\ build = "plain"
  /\ now = MaxTime
  /\ req = EmptyBag
  /\ created = [b \in BookIds |-> 0]
  /\ \E n \in 0..MaxItems, m \in 0..MaxItems :
       /\ m > 0 => n >= 2
       /\ made = n
       /\ books = [b \in 1..MaxItems |-> IF b <= n THEN PagedBook(b) ELSE NoBook]
       /\ borrows = SetToBag({PagedBorrow(i) : i \in 1..m})

\* the lists of the catalog and of the ledger are paged
NextPages ==
  \/ getAllBorrowsPage
  \/ allBorrowsPageCount
  \/ getAllBooks
  \/ allBooksCount
  \/ Respond

SpecPages == InitPages /\ [][NextPages]_vars

\* the catalog is edited, isbn included, while books are created with any isbn and
\* deleted
NextIsbn ==
  \/ createBookIsbn
  \/ updateBookIsbn
  \/ updateSave
  \/ deleteBook
  \/ deleteBorrows
  \/ deleteOne
  \/ Respond

SpecIsbn == Init /\ [][NextIsbn]_vars

\* the months the ledger of InitMonths reaches over: the month of the request is the
\* last of them
Months == 0..(MaxMonths - 1)

\* the time of the borrow of the month m: the day r of the month, or the time t of
\* the request when that day is still to come
BorrowTime(m, r, t) == IF m * MonthLen + r <= t THEN m * MonthLen + r ELSE t

\* a book borrowed over MaxMonths months, in the months S one copy at a time (on
\* the day r of the month), and in the first or the last of them (k) once more: the
\* request comes on the day p of the last month
InitMonths ==
  /\ uri = TRUE
  /\ isConnected = TRUE
  /\ build = "plain"
  /\ made = 1
  /\ books = [b \in BookIds |->
                IF b = 1 THEN [exists |-> TRUE, copies |-> MaxCopies, available |-> TRUE, isbn |-> 1]
                ELSE NoBook]
  /\ req = EmptyBag
  /\ created = [b \in BookIds |-> 0]
  /\ \E p \in 0..(MonthLen - 1), r \in 0..(MonthLen - 1), S \in SUBSET Months :
       /\ now = (MaxMonths - 1) * MonthLen + p
       /\ \E k \in {m \in S : (\A n \in S : n <= m) \/ (\A n \in S : n >= m)} \cup {-1} :
            borrows = SetToBag({BorrowDoc(1, 1, BorrowTime(m, r, now) + 1, BorrowTime(m, r, now)) :
                                  m \in S})
                        (+) (IF k = -1 THEN EmptyBag
                             ELSE SetToBag({BorrowDoc(1, MaxQty, BorrowTime(k, r, now) + 1,
                                                      BorrowTime(k, r, now))}))

NextMonths ==
  \/ getBorrowStatistics
  \/ Respond

SpecMonths == InitMonths /\ [][NextMonths]_vars

\* ------------------------------------------------------------- properties
\* how many times the bag holds x
Count(bag, x) == IF x \in DOMAIN bag THEN bag[x] ELSE 0

\* this step is the handler h answering resp
Answered(h, resp) ==
  /\ h.pc /= "resp"
  /\ req' = Watch(req (-) SetToBag({h})) (+) SetToBag({Answer(h, resp)})

\* this step is a step of the handler h
Stepped(h) ==
  /\ h.pc /= "resp"
  /\ BagCardinality(req') = BagCardinality(req)
  /\ Count(req', h) < Count(req, h)

\* the responses that report a failure
Failures == {"badid", "notfound", "insufficient", "validation", "duplicate", "error"}

\* C1: borrows that run concurrently against a book never take more than it had.
\* When a borrow that read the book with k copies and no borrow record yet answers
\* with success, the quantities of all the records of the book sum to at most k
\* (the other records were made by borrows that ran while this one did)
C1_ConcurrentBorrowsWithinStock ==
  [][\A h \in Handlers :
       (h.op = "borrow" /\ h.fresh /\ Answered(h, "created"))
         => TotalBorrowed(borrows', h.book) <= h.saw]_vars

\* C2: the test and the decrement of a borrow are one atomic step: while a borrow
\* stands between its test and its decrement, the stored book is still the book it
\* tested (existing, available, with the copies it read)
C2_TestAndDecrementAtomic ==
  \A h \in Handlers :
    (h.op = "borrow" /\ h.pc = "save")
      => (books[h.book].exists /\ books[h.book].available /\ books[h.book].copies = h.saw)

\* C3: in every reachable state every book has copies >= 0
C3_CopiesNeverNegative == \A b \in BookIds : books[b].copies >= 0

\* a borrow has answered with success and has brought the copies of its book to 0
C3_BorrowedToZero ==
  \E h \in Handlers :
    /\ h.pc = "resp" /\ h.op = "borrow" /\ h.resp = "created"
    /\ build = "inline"
    /\ books[h.book].exists /\ books[h.book].copies = 0

\* C4: every mutation of a book leaves the stored book with available = (copies > 0)
C4_AvailableIffCopies ==
  [][\A b \in BookIds :
       (books'[b] /= books[b] /\ books'[b].exists)
         => (books'[b].available = (books'[b].copies > 0))]_vars

\* C5: a borrow of a quantity >= 1 with a future dueDate on an available book that
\* holds the quantity, running alone, does not fail; when it answers, the copies of
\* the book are what it read minus the quantity, and exactly one record has been
\* added, with its book, quantity and dueDate
C5_BorrowDeductsAndRecords ==
  [][\A h \in Handlers :
       (h.op = "borrow" /\ h.solo /\ QuantityValid(h.qty) /\ DueDateValid(h.due) /\ Stepped(h))
         => /\ \A f \in Failures : ~Answered(h, f)
            /\ Answered(h, "created")
                 => /\ books'[h.book].copies = h.saw - h.qty
                    /\ \E x \in DOMAIN borrows' :
                         /\ borrows' = borrows (+) SetToBag({x})
                         /\ x.book = h.book /\ x.quantity = h.qty /\ x.dueDate = h.due]_vars

\* what a borrow request comes to in its first synchronous block, in the deployed build
BorrowOutcome(b, q, due) ==
  IF build = "inline" THEN BorrowInlineEntry(b, q) ELSE BorrowEntry(b, q, due)

\* C6 as stated: a borrow whose quantity exceeds the copies of the book, or whose
\* book is not available, is answered with the insufficient-copies error
C6_ExcessFailsInsufficient ==
  \A b \in BookIds, q \in Quantities, due \in DueArgs :
    (books[b].exists /\ (q > books[b].copies \/ ~books[b].available))
      => BorrowOutcome(b, q, due) = "insufficient"

\* C6 amended: a borrow with a quantity >= 1 and a dueDate in the future whose
\* quantity exceeds the copies of the book, or whose book is not available, is
\* answered with the insufficient-copies error; no record is created and the book
\* is left as it is.  This holds of the test on the book the controller read and of
\* the test the pre-save hook makes on the book it reads again
C6_ValidExcessFailsInsufficient ==
  /\ [](\A b \in BookIds, q \in Quantities, due \in DueArgs :
          (/\ books[b].exists
           /\ q > books[b].copies \/ ~books[b].available
           /\ q >= 1 /\ due > now)
            => BorrowOutcome(b, q, due) = "insufficient")
  /\ [][\A h \in Handlers :
          (/\ h.op = "borrow" /\ h.pc = "presave" /\ Stepped(h)
           /\ books[h.book].exists
           /\ h.qty > books[h.book].copies \/ ~books[h.book].available
           /\ h.qty >= 1 /\ h.due > now)
            => (Answered(h, "insufficient") /\ UNCHANGED <<books, borrows>>)]_vars

\* a borrow of 2 on a book that holds 1 is turned down as insufficient, and a borrow
\* whose book lost its copies before the pre-save hook has been answered so
C6_InsufficientAnswered ==
  /\ \E b \in BookIds :
       /\ books[b].exists /\ books[b].available /\ books[b].copies = 1
       /\ BorrowOutcome(b, 2, now + 1) = "insufficient"
  /\ \E h \in Handlers :
       h.pc = "resp" /\ h.op = "borrow" /\ h.resp = "insufficient" /\ h.qty >= 1

\* C7: for a book that only borrows change, the quantities of its borrow records
\* sum to at most the copies it was created with
C7_BorrowedWithinCreated ==
  \A b \in BookIds : books[b].exists => TotalBorrowed(borrows, b) <= created[b]

\* C8: a deleteBook that runs alone does not fail; its steps leave the records of
\* the other books as they are; when it answers, the book is gone and no record
\* references it
C8_SoloDeleteCascades ==
  [][\A h \in Handlers :
       (h.op = "deleteBook" /\ h.solo /\ Stepped(h))
         => /\ \A f \in Failures : ~Answered(h, f)
            /\ \A x \in DOMAIN borrows \cup DOMAIN borrows' :
                 x.book /= h.book => Count(borrows', x) = Count(borrows, x)
            /\ Answered(h, "ok")
                 => /\ ~books'[h.book].exists
                    /\ \A x \in DOMAIN borrows' : x.book /= h.book]_vars

\* a deleteBook that ran alone has answered, and a record of another book is there
C8_DeletedAlone ==
  \E h \in Handlers :
    /\ h.pc = "resp" /\ h.op = "deleteBook" /\ h.resp = "ok" /\ h.solo
    /\ \E x \in DOMAIN borrows : x.book /= h.book

\* C9 as stated: a borrow whose dueDate is not later than now fails with a validation
\* error (the malformed id counted as one): its first block answers so, or lets it
\* through to the validators
C9_PastDueFailsValidation ==
  \A b \in BookArgs, q \in Quantities :
    BorrowOutcome(b, q, now) \in {"badid", "validation", "proceed"}

\* C9 amended: every stored record has a dueDate later than its createdAt; a borrow
\* whose dueDate is not later than now is turned down in its first block (with a
\* validation error by borrow.controller.ts, once the id is well-formed) or, where it
\* is let through, creates no record and is answered with the validation error when
\* the validators run
C9_PastDueNeverRecorded ==
  /\ [](\A x \in DOMAIN borrows : x.dueDate > x.createdAt)
  /\ [](\A b \in BookArgs, q \in Quantities :
          /\ build = "inline" => BorrowOutcome(b, q, now) /= "validation"
          /\ build /= "inline" => BorrowOutcome(b, q, now) \in {"badid", "validation"})
  /\ [][\A h \in Handlers :
          (/\ h.op = "borrow" /\ h.pc \in {"save", "create", "presave"}
           /\ h.due <= now /\ Stepped(h))
            => /\ borrows' = borrows
               /\ h.pc /= "save" => Answered(h, "validation")]_vars

\* a borrow with a quantity >= 1 whose dueDate is not later than now has been
\* answered with the validation error
C9_PastDueAnswered ==
  \E h \in Handlers :
    /\ h.pc = "resp" /\ h.op = "borrow" /\ h.resp = "validation"
    /\ h.qty >= 1 /\ h.due <= now

\* C10: when a borrow that runs alone inserts its record, the store already holds
\* the copies it read minus the quantity
C10_DecrementBeforeRecord ==
  [][\A h \in Handlers :
       (h.op = "borrow" /\ h.solo /\ Stepped(h) /\ borrows' /= borrows)
         => books[h.book].copies = h.saw - h.qty]_vars

\* C11: a borrow with a quantity below 1 is rejected: none of its steps answers with
\* success, adds a record or changes the copies of a book; and every stored record
\* has a quantity >= 1
C11_QuantityBelowOneRejected ==
  /\ [](\A x \in DOMAIN borrows : x.quantity >= 1)
  /\ [][\A h \in Handlers :
          (h.op = "borrow" /\ h.qty < 1 /\ Stepped(h))
            => /\ ~Answered(h, "created")
               /\ borrows' = borrows
               /\ \A b \in BookIds : books'[b].copies = books[b].copies]_vars

\* C12 as stated: a borrow of a book that does not exist is answered not-found
C12_MissingBookNotFound ==
  \A b \in BookIds, q \in Quantities, due \in DueArgs :
    ~books[b].exists => BorrowOutcome(b, q, due) = "notfound"

\* C12 amended: a borrow whose book does not exist when the handler looks for it is
\* turned down in its first block: with the invalid-id error when the id is
\* malformed, with not-found when the id is well-formed (borrow.controller.ts: and
\* the quantity is >= 1 and the dueDate later than now, else with the validation
\* error).  A borrow whose book is gone when the pre-save hook looks for it fails,
\* and that step adds no record and changes no book
C12_MissingBookFails ==
  /\ [](\A b \in BookArgs, q \in Quantities, due \in DueArgs :
          (b \notin BookIds \/ ~books[b].exists)
            => /\ BorrowOutcome(b, q, due) \in {"badid", "validation", "notfound"}
               /\ b \notin BookIds => BorrowOutcome(b, q, due) = "badid"
               /\ (b \in BookIds /\ (build = "inline" \/ (q >= 1 /\ due > now)))
                    => BorrowOutcome(b, q, due) = "notfound")
  /\ [][\A h \in Handlers :
          (h.op = "borrow" /\ h.pc = "presave" /\ Stepped(h) /\ ~books[h.book].exists)
            => /\ \E f \in Failures : Answered(h, f)
               /\ UNCHANGED <<books, borrows>>]_vars

\* a borrow of a deleted book is turned down as not-found, and a borrow whose book
\* was deleted before the pre-save hook ran has failed
C12_MissingBookAnswered ==
  \E h \in Handlers :
    /\ h.pc = "resp" /\ h.op = "borrow" /\ h.resp = "error" /\ build = "hooked"
    /\ ~books[h.book].exists
    /\ BorrowOutcome(h.book, 1, now + 1) = "notfound"

\* C13: the ledger changes only by a borrow adding one record, with the book, the
\* quantity and the dueDate of the request and the time of its creation, or by a
\* deleteBook removing records of its own book; no step changes a record or does both
C13_RecordsAddedOrCascaded ==
  [][borrows' /= borrows =>
       \/ \E h \in Handlers :
            /\ h.op = "borrow" /\ Answered(h, "created")
            /\ \E x \in DOMAIN borrows' :
                 /\ borrows' = borrows (+) SetToBag({x})
                 /\ x.book = h.book /\ x.quantity = h.qty /\ x.dueDate = h.due
                 /\ x.createdAt <= now
       \/ \E h \in Handlers :
            /\ h.op = "deleteBook" /\ Stepped(h)
            /\ \A x \in DOMAIN borrows \cup DOMAIN borrows' :
                 /\ Count(borrows', x) <= Count(borrows, x)
                 /\ x.book /= h.book => Count(borrows', x) = Count(borrows, x)]_vars

\* a getAllBorrows holds a record that a deleteBook has since removed with its book's
\* records, and a record of another book that is still there
C13_RecordRemovedByCascade ==
  \E h \in Handlers, r \in Handlers :
    /\ h.op = "deleteBook" /\ h.pc = "deleteOne"
    /\ r.op = "getAllBorrows" /\ r.pc = "count"
    /\ \E x \in DOMAIN r.out : x.book = h.book /\ x \notin DOMAIN borrows
    /\ \E y \in DOMAIN r.out : y \in DOMAIN borrows

\* the reporting operations
ReportOps == {"getAllBorrows", "getBorrowSummary", "getOverdueBooks",
              "getTotalBorrowedForBook", "getBorrowStatistics"}

\* this step is the request g starting, or the handler h going on as g
Took(g) ==
  \/ req' = Watch(Joined) (+) SetToBag({g})
  \/ \E h \in Handlers :
       /\ h.pc /= "resp" /\ h.op = g.op
       /\ req' = Watch(req (-) SetToBag({h})) (+) SetToBag({g})

\* C14: no step of a reporting operation changes a book or a borrow record
C14_ReportsChangeNothing ==
  [][(\E g \in DOMAIN req' : g.op \in ReportOps /\ Took(g))
       => UNCHANGED <<books, borrows>>]_vars

\* a getAllBorrows has answered with the records of a ledger that is not empty
C14_LedgerReported ==
  \E h \in Handlers :
    /\ h.pc = "resp" /\ h.op = "getAllBorrows"
    /\ h.out.totalBorrows >= 1 /\ h.out.data = borrows

\* the quantities of the records of book b, counted one unit at a time
UnitsBorrowed(b) ==
  Cardinality(UNION {{<<x, i, j>> : i \in 1..borrows[x], j \in 1..x.quantity} :
                       x \in {y \in DOMAIN borrows : y.book = b}})

\* C15: the totalBorrowed that getTotalBorrowedForBook answers is the sum of the
\* quantities of the records of its book that the ledger holds when the aggregate
\* runs, and 0 when it holds none
C15_TotalIsSumOfQuantities ==
  [][\A h \in Handlers, g \in DOMAIN req' :
       (/\ h.op = "getTotalBorrowedForBook" /\ h.pc = "aggregate"
        /\ g.op = h.op /\ g.pc = "resp"
        /\ req' = Watch(req (-) SetToBag({h})) (+) SetToBag({g}))
         => /\ g.out.totalBorrowed = UnitsBorrowed(h.book)
            /\ (\A x \in DOMAIN borrows : x.book /= h.book) => g.out.totalBorrowed = 0]_vars

\* getTotalBorrowedForBook has answered 3 for a book with a record of 1 and one of 2
C15_TwoRecordsSummed ==
  \E h \in Handlers :
    /\ h.pc = "resp" /\ h.op = "getTotalBorrowedForBook"
    /\ h.out.totalBorrowed = 3
    /\ \E x \in DOMAIN borrows, y \in DOMAIN borrows :
         x.book = h.book /\ y.book = h.book /\ x.quantity = 1 /\ y.quantity = 2

\* C16: what a report answers is the report of the store at one instant of the
\* request.  The reports that one store operation computes are so by construction;
\* for the two that read twice: the total and the copies that getTotalBorrowedForBook
\* answers together were held together by the store at some instant since it read
\* the book, and the total that getAllBorrows answers counts the page it answers
C16_ReportsOfOneInstant ==
  \A h \in Handlers :
    h.pc = "resp" =>
      /\ h.op = "getTotalBorrowedForBook" => h.out.totalBorrowed \in h.seen
      /\ h.op = "getAllBorrows" => h.out.totalBorrows = BagCardinality(h.out.data)

\* the records of book b, each with its multiplicity
RecordsOf(b) ==
  UNION {{<<x, i>> : i \in 1..borrows[x]} : x \in {y \in DOMAIN borrows : y.book = b}}

\* the books of the catalog that have a record
BorrowedBooks == {b \in BookIds : books[b].exists /\ RecordsOf(b) /= {}}

\* C17: getBorrowSummary answers one entry per book that has a record, with the sum
\* of the quantities, the number and the latest createdAt of the records of the book
\* and with the isbn of the book, in an order in which the sums never increase
C17_SummaryPerBorrowedBook ==
  \A h \in Handlers :
    (h.pc = "resp" /\ h.op = "getBorrowSummary") =>
      /\ Len(h.out) = Cardinality(BorrowedBooks)
      /\ {h.out[i].book : i \in 1..Len(h.out)} = BorrowedBooks
      /\ \A i \in 1..Len(h.out) :
           LET e == h.out[i]
           IN /\ e.totalQuantityBorrowed = UnitsBorrowed(e.book)
              /\ e.borrowCount = Cardinality(RecordsOf(e.book))
              /\ \E r \in RecordsOf(e.book) : r[1].createdAt = e.lastBorrowDate
              /\ \A r \in RecordsOf(e.book) : r[1].createdAt <= e.lastBorrowDate
              /\ e.isbn = books[e.book].isbn
      /\ \A i \in 1..Len(h.out), j \in 1..Len(h.out) :
           i < j => h.out[i].totalQuantityBorrowed >= h.out[j].totalQuantityBorrowed

\* getBorrowSummary has answered two entries, the one with the larger sum first
C17_TwoBooksSummarised ==
  \E h \in Handlers :
    /\ h.pc = "resp" /\ h.op = "getBorrowSummary"
    /\ Len(h.out) = 2
    /\ h.out[1].totalQuantityBorrowed > h.out[2].totalQuantityBorrowed

\* C18: the find of getOverdueBooks, made at time t, finds the records with a dueDate
\* before t, each as often as the ledger holds it, and no record with a dueDate of t
\* or later; the answer holds what was found, each record with its book, and its
\* count is their number
C18_OverdueStrictlyBefore ==
  /\ [][\A g \in DOMAIN req' :
          (/\ g.op = "getOverdueBooks" /\ g.pc = "populate"
           /\ req' = Watch(Joined) (+) SetToBag({g}))
            => /\ g.at = now
               /\ \A x \in DOMAIN borrows :
                    Count(g.out, x) = IF x.dueDate < now THEN borrows[x] ELSE 0
               /\ \A x \in DOMAIN g.out : x \in DOMAIN borrows]_vars
  /\ [][\A h \in Handlers, g \in DOMAIN req' :
          (/\ h.op = "getOverdueBooks" /\ h.pc = "populate"
           /\ g.op = h.op /\ g.pc = "resp"
           /\ req' = Watch(req (-) SetToBag({h})) (+) SetToBag({g}))
            => /\ \A y \in DOMAIN g.out.data :
                    /\ y.dueDate < h.at
                    /\ y.book.isbn = books[y.book.id].isbn
                    /\ g.out.data[y] = Count(h.out, [y EXCEPT !.book = y.book.id])
               /\ BagCardinality(g.out.data) = BagCardinality(h.out)
               /\ g.out.count = BagCardinality(g.out.data)]_vars

\* getOverdueBooks has answered a record, and has left out a record whose dueDate
\* is the time of its query
C18_DueNowLeftOut ==
  \E h \in Handlers :
    /\ h.pc = "resp" /\ h.op = "getOverdueBooks"
    /\ h.out.count = 1
    /\ \E x \in DOMAIN borrows :
         x.dueDate = h.at /\ \A y \in DOMAIN h.out.data : y.dueDate /= x.dueDate

\* the records of the ledger, each with its multiplicity
AllRecords == UNION {{<<x, i>> : i \in 1..borrows[x]} : x \in DOMAIN borrows}

\* C19: getBorrowStatistics answers the number of records as totalBorrows, the sum
\* of their quantities as totalQuantityBorrowed and the number of records with a
\* dueDate before now as overdueCount; each is 0 when there is no such record
C19_StatisticsCounters ==
  \A h \in Handlers :
    (h.pc = "resp" /\ h.op = "getBorrowStatistics") =>
      /\ h.out.totalBorrows = Cardinality(AllRecords)
      /\ h.out.totalQuantityBorrowed =
           Cardinality(UNION {{<<r, j>> : j \in 1..r[1].quantity} : r \in AllRecords})
      /\ h.out.overdueCount = Cardinality({r \in AllRecords : r[1].dueDate < now})
      /\ AllRecords = {} => h.out.totalBorrows = 0 /\ h.out.totalQuantityBorrowed = 0
      /\ (\A r \in AllRecords : r[1].dueDate >= now) => h.out.overdueCount = 0

\* getBorrowStatistics has answered 2 records of 3 copies in all, 1 of them overdue
C19_StatisticsAnswered ==
  \E h \in Handlers :
    /\ h.pc = "resp" /\ h.op = "getBorrowStatistics"
    /\ h.out.totalBorrows = 2 /\ h.out.totalQuantityBorrowed = 3 /\ h.out.overdueCount = 1

\* C20: the mostBorrowedBooks that getBorrowStatistics answers are at most 5, each
\* with the sum of the quantities of the records of its book, in an order in which
\* the sums never increase; a book with records that is not among them has a sum
\* no greater than any of theirs
C20_TopFiveMostBorrowed ==
  \A h \in Handlers :
    (h.pc = "resp" /\ h.op = "getBorrowStatistics") =>
      LET top == h.out.mostBorrowedBooks
      IN /\ Len(top) <= 5
         /\ \A i \in 1..Len(top) : top[i].totalBorrowed = UnitsBorrowed(top[i].book)
         /\ \A i \in 1..Len(top), j \in 1..Len(top) :
              i < j => top[i].totalBorrowed >= top[j].totalBorrowed /\ top[i].book /= top[j].book
         /\ \A b \in DOMAIN books :
              (/\ books[b].exists /\ RecordsOf(b) /= {}
               /\ \A i \in 1..Len(top) : top[i].book /= b)
                => \A i \in 1..Len(top) : UnitsBorrowed(b) <= top[i].totalBorrowed

\* getBorrowStatistics has answered five books out of six that have records, and
\* their sums are not all the same
C20_SixthBookLeftOut ==
  \E h \in Handlers :
    /\ h.pc = "resp" /\ h.op = "getBorrowStatistics"
    /\ Len(h.out.mostBorrowedBooks) = 5
    /\ h.out.mostBorrowedBooks[1].totalBorrowed > h.out.mostBorrowedBooks[5].totalBorrowed
    /\ Cardinality({b \in DOMAIN books : RecordsOf(b) /= {}}) > 5

\* the month the time t lies in, counted from the first month of year 0
MonthIndex(t) == t \div MonthLen

\* the month an entry of borrowsByMonth stands for, counted likewise
EntryMonth(e) == e.year * 12 + (e.month - 1)

\* the records created in the month n
RecordsOfMonth(n) == {r \in AllRecords : MonthIndex(r[1].createdAt) = n}

\* what C21 says of every borrowsByMonth list ms: at most 12 entries, each for a
\* month that has records, from the most recent to the oldest, each with the number
\* and the summed quantity of the records of its month
MonthsListed(ms) ==
  /\ Len(ms) <= 12
  /\ \A i \in 1..Len(ms) :
       /\ ms[i].month \in 1..12
       /\ RecordsOfMonth(EntryMonth(ms[i])) /= {}
       /\ ms[i].count = Cardinality(RecordsOfMonth(EntryMonth(ms[i])))
       /\ ms[i].quantity =
            Cardinality(UNION {{<<r, j>> : j \in 1..r[1].quantity} :
                                 r \in RecordsOfMonth(EntryMonth(ms[i]))})
  /\ \A i \in 1..Len(ms), j \in 1..Len(ms) :
       i < j => EntryMonth(ms[i]) > EntryMonth(ms[j])

\* C21 as stated: the borrowsByMonth that getBorrowStatistics answers has at most 12
\* entries, one per (year, month) of createdAt, from the most recent to the oldest,
\* each with the count and the summed quantity of the records of its month, and no
\* record created less than 12 months before the request is left out of it
C21_ByMonthLastTwelveMonths ==
  \A h \in Handlers :
    (h.pc = "resp" /\ h.op = "getBorrowStatistics") =>
      LET ms == h.out.borrowsByMonth
      IN /\ MonthsListed(ms)
         /\ \A r \in AllRecords :
              now - r[1].createdAt < 12 * MonthLen
                => \E i \in 1..Len(ms) : EntryMonth(ms[i]) = MonthIndex(r[1].createdAt)

\* C21 amended: the same, but the records that are never left out are those created
\* in the calendar month of the request or in one of the 11 calendar months before it
C21_ByMonthLastTwelveCalendarMonths ==
  \A h \in Handlers :
    (h.pc = "resp" /\ h.op = "getBorrowStatistics") =>
      LET ms == h.out.borrowsByMonth
      IN /\ MonthsListed(ms)
         /\ \A r \in AllRecords :
              MonthIndex(now) - MonthIndex(r[1].createdAt) < 12
                => \E i \in 1..Len(ms) : EntryMonth(ms[i]) = MonthIndex(r[1].createdAt)

\* getBorrowStatistics has answered 12 months that reach over two years, one of them
\* with two records, for a ledger that has records in 13 months
C21_ThirteenthMonthLeftOut ==
  \E h \in Handlers :
    /\ h.pc = "resp" /\ h.op = "getBorrowStatistics"
    /\ Len(h.out.borrowsByMonth) = 12
    /\ h.out.borrowsByMonth[1].year > h.out.borrowsByMonth[12].year
    /\ \E i \in 1..12 : h.out.borrowsByMonth[i].count = 2
    /\ Cardinality({MonthIndex(r[1].createdAt) : r \in AllRecords}) = 13

\* another book than b holds the isbn i
HeldByAnother(i, b) == \E c \in BookIds : c /= b /\ books[c].exists /\ books[c].isbn = i

\* no two books have the same isbn
IsbnUnique ==
  \A b \in BookIds, c \in BookIds :
    (b /= c /\ books[b].exists /\ books[c].exists) => books[b].isbn /= books[c].isbn

\* an update that sets an isbn another book holds by the time its save() reaches the
\* store is answered with the duplicate-key error, and the catalog is left as it is
DuplicateSaveFails ==
  [][\A h \in Handlers :
       (/\ h.op = "updateBook" /\ h.pc = "updateSave" /\ Stepped(h)
        /\ books[h.book].exists
        /\ "isbn" \in h.d.mod /\ HeldByAnother(h.d.doc.isbn, h.book))
         => (Answered(h, "duplicate") /\ UNCHANGED books)]_vars

\* C22 as stated: no two books have the same isbn; a createBook or an updateBook with
\* an isbn that another book holds fails with the duplicate-key error and leaves the
\* catalog as it is: the create is answered so, the update goes to the store and is
\* answered so there
C22_DuplicateIsbnFailsDuplicateKey ==
  /\ []IsbnUnique
  /\ [](\A c \in CopyArgs, i \in IsbnArgs :
          HeldByAnother(i, 0) => CreateOutcome(c, i) = "duplicate")
  /\ [](\A b \in BookIds, body \in IsbnBodies :
          (books[b].exists /\ "isbn" \in body.has /\ HeldByAnother(body.isbn, b))
            => UpdateIsbnEntry(b, body) = "proceed")
  /\ DuplicateSaveFails

\* C22 amended: no two books have the same isbn; a createBook or an updateBook with
\* an isbn that another book holds fails and leaves the catalog as it is: with the
\* validation error when its copies are not valid, with the duplicate-key error
\* otherwise (the update: when its save() reaches the store, whether the other book
\* took the isbn before the update read its book or after)
C22_DuplicateIsbnFails ==
  /\ []IsbnUnique
  /\ [](\A c \in CopyArgs, i \in IsbnArgs :
          HeldByAnother(i, 0) =>
            CreateOutcome(c, i) = IF c >= 0 THEN "duplicate" ELSE "validation")
  /\ [](\A b \in BookIds, body \in IsbnBodies :
          (books[b].exists /\ "isbn" \in body.has /\ HeldByAnother(body.isbn, b))
            => UpdateIsbnEntry(b, body) =
                 IF "copies" \in body.has /\ body.copies < 0 THEN "validation" ELSE "proceed")
  /\ DuplicateSaveFails

\* an update is about to save an isbn that no other book had when it read its book
\* and that another book has taken since
C22_IsbnTakenMeanwhile ==
  \E h \in Handlers :
    /\ h.op = "updateBook" /\ h.pc = "updateSave" /\ h.fresh
    /\ books[h.book].exists
    /\ "isbn" \in h.d.mod /\ HeldByAnother(h.d.doc.isbn, h.book)

\* the smaller of two numbers
Min(a, b) == IF a <= b THEN a ELSE b

\* the documents of a sequence, each as often as it occurs
SeqBag(d) == [x \in {d[i] : i \in 1..Len(d)} |-> Cardinality({i \in 1..Len(d) : d[i] = x})]

\* the page and the limit a list request asks for, with their defaults
AskedPage(q) == IF q.page = 0 THEN 1 ELSE q.page

AskedLimit(q) == IF q.limit = 0 THEN 10 ELSE q.limit

\* the sort of the request puts x before y: by default the later createdAt first
\* (of the books: the later id), else the smaller sortBy first, the larger with desc
ComesFirst(x, y, q) ==
  IF q.sortBy = "" THEN
    IF "createdAt" \in DOMAIN x THEN x.createdAt > y.createdAt ELSE x.id > y.id
  ELSE IF q.sortOrder = "desc" THEN x[q.sortBy] > y[q.sortBy]
  ELSE x[q.sortBy] < y[q.sortBy]

\* d holds the documents at the positions (p-1)*l .. p*l-1 of a sorted list of the
\* documents F: F is the documents A before the page, the page d and the documents
\* after it, A being (p-1)*l documents (or all of F), d the next l (or what is left),
\* and no document comes first with respect to one that is listed before it
IsPage(d, F, q) ==
  /\ SeqBag(d) \sqsubseteq F
  /\ Len(d) <= AskedLimit(q)
  /\ \E A \in SubBag(F (-) SeqBag(d)) :
       LET B == (F (-) SeqBag(d)) (-) A
       IN /\ BagCardinality(A) = Min((AskedPage(q) - 1) * AskedLimit(q), BagCardinality(F))
          /\ Len(d) = Min(AskedLimit(q), BagCardinality(F) - BagCardinality(A))
          /\ \A i \in 1..Len(d), j \in 1..Len(d) : i < j => ~ComesFirst(d[j], d[i], q)
          /\ \A a \in DOMAIN A, i \in 1..Len(d) : ~ComesFirst(d[i], a, q)
          /\ \A b \in DOMAIN B, i \in 1..Len(d) : ~ComesFirst(b, d[i], q)
          /\ \A a \in DOMAIN A, b \in DOMAIN B : ~ComesFirst(b, a, q)

\* the documents a list request filters out of the store
Filtered(h) ==
  IF h.op = "getAllBorrows" THEN Found(borrows, h.query.filter) ELSE FoundBooks(h.query.filter)

\* C23: the find of getAllBooks and of getAllBorrows with page p and limit l gives
\* the documents at the positions (p-1)*l .. p*l-1 of the filtered, sorted list, and
\* the response holds them with total, the number of the filtered documents,
\* totalPages = ceil(total / l), hasNext = (p < totalPages) and hasPrev = (p > 1)
C23_PageOfTheSortedList ==
  /\ [][\A g \in DOMAIN req' :
          (g.pc = "countPage" /\ req = EmptyBag) => IsPage(g.out, Filtered(g), g.query)]_vars
  /\ [][\A h \in Handlers, g \in DOMAIN req' :
          (h.pc = "countPage" /\ g.pc = "resp")
            => LET pg == g.out.pagination
                   l == AskedLimit(h.query)
               IN /\ g.op = h.op
                  /\ g.out.data = h.out
                  /\ pg.currentPage = AskedPage(h.query)
                  /\ pg.total = BagCardinality(Filtered(h))
                  /\ pg.totalPages * l >= pg.total /\ (pg.totalPages - 1) * l < pg.total
                  /\ pg.hasNext = (pg.currentPage < pg.totalPages)
                  /\ pg.hasPrev = (pg.currentPage > 1)]_vars

\* getAllBorrows has answered page 2 of the 3 pages of 5 records, with its 2 records
C23_SecondPageOfThree ==
  \E h \in Handlers :
    /\ h.pc = "resp" /\ h.op = "getAllBorrows"
    /\ h.out.pagination.currentPage = 2 /\ h.out.pagination.totalPages = 3
    /\ h.out.pagination.total = 5
    /\ Len(h.out.data) = 2
    /\ h.out.pagination.hasNext /\ h.out.pagination.hasPrev

\* the update requests that carry available = false for a book they leave with copies
ExplicitFalse(b, body) ==
  /\ books[b].exists
  /\ "available" \in body.has /\ ~body.available
  /\ UpdateEntry(b, body.has, body.copies, body.available) = "proceed"
  /\ Updated(b, body.has, body.copies, body.available).doc.copies > 0

C25_AvailabilityFromCopies ==
  [][\A h \in Handlers :
       (h.op = "updateBookAvailability" /\ h.pc = "availSave" /\ Answered(h, "ok"))
         => /\ books'[h.book].available = (books'[h.book].copies > 0)
            /\ books'[h.book].copies = books[h.book].copies
            /\ books'[h.book].isbn = books[h.book].isbn
            /\ books'[h.book].exists
            /\ \A b \in BookIds \ {h.book} : books'[b] = books[b]
            /\ borrows' = borrows
            /\ SetPath([doc |-> books'[h.book], mod |-> {}, was |-> books'[h.book]],
                       "available", books'[h.book].copies > 0).mod = {}]_vars

\* this step is the request g coming in
Arrived(g) == req' = Watch(Joined) (+) SetToBag({g})

\* C26: a request is in a route handler, or has been answered by one, only when the
\* database connection has been made; a request whose connectDB fails is answered
\* 500 without getting to a route, and leaves isConnected as it is; and a request
\* that comes while isConnected is false goes through connectDB again
C26_NoRouteBeforeConnection ==
  /\ [](\A h \in Handlers :
          (h.op /= "request" \/ h.pc = "route" \/ (h.pc = "resp" /\ h.resp /= "unconnected"))
            => isConnected)
  /\ [][\A h \in Handlers :
          (h.op = "request" /\ h.pc = "connect" /\ Stepped(h))
            => \/ isConnected' /\ req' = (req (-) SetToBag({h})) (+) SetToBag({[h EXCEPT !.pc = "route"]})
               \/ Answered(h, "unconnected") /\ UNCHANGED <<isConnected, books, borrows>>]_vars
  /\ [][\A g \in DOMAIN req' :
          (g.op = "request" /\ Arrived(g) /\ ~isConnected)
            => /\ UNCHANGED <<isConnected, books, borrows>>
               /\ uri => g.pc = "connect"
               /\ ~uri => g.pc = "resp" /\ g.resp = "unconnected"]_vars

\* a request whose connection failed has been answered 500 while the request that
\* made the connection is at its route
C26_FailedWhileConnected ==
  /\ isConnected
  /\ \E h \in Handlers : h.op = "request" /\ h.pc = "resp" /\ h.resp = "unconnected"
  /\ \E g \in Handlers : g.op = "request" /\ g.pc = "route"

\* C30: mongoose.connect is started only while isConnected is false and no call of
\* it is pending: at most once as long as it does not fail, and never again after it
\* has succeeded
C30_ConnectStartedOnce ==
  [][\A g \in DOMAIN req' :
       (g.op = "request" /\ g.pc = "connect" /\ Arrived(g))
         => (~isConnected /\ \A h \in Handlers : h.pc /= "connect")]_vars

\* no store operation of a borrow has failed: every borrow that went past the block
\* that read its book has answered with success or is still running
NoStoreFailure ==
  \A h \in Handlers : (h.op = "borrow" /\ h.pc = "resp") => h.resp = "created"

\* C27: no store operation failing, in every state in which no borrow is in flight
\* (each one has answered) every book that only borrows have changed has copies +
\* (the sum of quantity over its borrow records) = the copies it was created with
C27_CopiesPlusBorrowedIsCreated ==
  (NoStoreFailure /\ \A h \in Handlers : h.op = "borrow" => h.pc = "resp")
    => \A b \in BookIds :
         books[b].exists => books[b].copies + TotalBorrowed(borrows, b) = created[b]

\* C28: a borrow that answers with a failure has left its book and the ledger as
\* they were.  Of a borrow that ran alone: when it answers a failure, its book has the
\* copies it read and is available as it was when read (a borrow goes past its first
\* block only on an available book), the answering step adds no record, and a book
\* that had no record when it was read has none
C28_FailedBorrowChangesNothing ==
  [][\A h \in Handlers, f \in Failures :
       (h.op = "borrow" /\ h.solo /\ Answered(h, f))
         => /\ books'[h.book].copies = h.saw
            /\ books'[h.book].available
            /\ borrows' = borrows
            /\ h.fresh => TotalBorrowed(borrows', h.book) = 0]_vars

\* C29: a deleteBook and the borrows that run with it having all completed (no
\* handler is left running), every borrow record references a book that exists
C29_NoRecordOfADeletedBook ==
  (\A h \in Handlers : h.pc = "resp")
    => \A x \in DOMAIN borrows : books[x.book].exists

====
